---- MODULE Spec2Model ----
(***************************************************************************)
(* Model of the deployment workflows of the ecs-preview CLI:               *)
(*   - initEnvOpts.Execute   (environment bring-up, "env init")            *)
(*   - appDeployOpts.Execute (application deploy, "app deploy")            *)
(* One invocation of a command runs at a time; the backend state (stack,   *)
(* project links, registry) persists from one invocation to the next.      *)
(***************************************************************************)
EXTENDS Naturals, Sequences, FiniteSets

VARIABLES
    project,      \* the parent project record held by the registry
    envAccount,   \* the account of the profile session (envIdentity, envDeployer)
    stackExists,  \* backend: the environment stack exists
    dnsGranted,   \* backend: accounts that were granted DNS permissions
    linked,       \* backend: account/region pairs added to the project stack set
    registry,     \* registry: names of the persisted environment records
    appStack,     \* backend: change sets applied to the application stack
    imagePushed,  \* image registry: the image was pushed
    issued,       \* identifiers uuid.NewRandom has returned so far
    cmd,          \* the command of the current invocation
    pc,           \* position of the current invocation in its Execute
    trace,        \* collaborator calls of the current invocation, with results
    prog,         \* spinner calls of the current invocation
    returned,     \* number of times the current invocation returned
    retErr,       \* the error Execute returned (Nil: success)
    pre,          \* backend state when the current invocation started
    failedAfterStack, \* some invocation failed at link or persist
    wpc,          \* background watcher: "off", "sending", "closed"
    sent,         \* event batches the watcher sent on the event channel
    evChan,       \* event channel: batches sent and not yet received
    evClosed,     \* the event channel is closed
    respChan,     \* result channel (capacity 1)
    respSent,     \* the watcher delivered its terminal result
    shown,        \* batches handed to the progress display (prog.Events)
    resp,         \* the terminal result the consumer read (<<>>: not read)
    app,          \* locals of appDeployOpts.Execute
    cli,          \* one run of a command's RunE: opts, stage, returned error
    probe,        \* a resource put to the phase matchers, with the phases it matched
    hpc,          \* event display: "idle", "counting" (in a call), "shown"
    counts,       \* per phase: the counter of the current HumanizeResourceEvents call
    fed,          \* per phase: matching events in the batch of the current call
    carried,      \* per phase: matching events in the batches of earlier calls
    rows,         \* the rows last handed to prog.Events
    ignored,      \* events of the stream that matched no phase
    sm,           \* one call of SecretsManager.CreateSecret: inputs, backend answer, result
    ainit         \* "app init": the opts and position of Execute, its calls, and the
                  \* store, workspace and project resources it writes

vars == <<project, envAccount, stackExists, dnsGranted, linked, registry,
          appStack, imagePushed, issued, cmd, pc, trace, prog, returned, retErr, pre,
          failedAfterStack, wpc, sent, evChan, evClosed, respChan, respSent,
          shown, resp, app, cli, probe, hpc, counts, fed, carried, rows,
          ignored, sm, ainit>>

display == <<hpc, counts, fed, carried, rows, ignored>>

\* what no step of an Execute writes
world == <<project, envAccount, cli, probe, display, sm, ainit>>
backendEnv == <<stackExists, dnsGranted, linked, registry>>
backendApp == <<appStack, imagePushed, issued>>
stream == <<wpc, sent, evChan, evClosed, respChan, respSent, shown, resp>>

----------------------------------------------------------------------------
\* Bounds of the model.
MaxEvents == 2      \* event batches one watcher sends at most
EventChanCap == 1   \* batches the event channel holds before a send blocks
MaxChangeSets == 2  \* change sets remembered by the application stack
MaxNameLen == 2     \* words in the logical name of a resource
MaxExtra == 1       \* events of a stream beside one batch of the expected
                    \* events: duplicates, unmatched events, earlier batches
MaxInitRuns == 2    \* invocations of "app init" in one workspace

\* Values the collaborators range over.
Nil == <<>>
BackendErrs == {<<"AccessDenied">>, <<"Throttling">>}
ErrStackAlreadyExists == <<"ErrStackAlreadyExists">>
EventBatches == {"vpc", "subnet"}
ProjectAccount == "111111111111"
Accounts == {ProjectAccount, "222222222222"}
Domains == {"", "example.com"}
ProjectName == "phonetool"
EnvName == "test"
AppName == "frontend"
Region == "us-west-2"
UUIDs == {"id1", "id2", "id3"}

\* fmt.Errorf("<msg>: %w", err)
Wrap(msg, err) == <<msg>> \o err

\* errors.As(err, &existsErr) with *cloudformation.ErrStackAlreadyExists
IsStackAlreadyExists(err) ==
    \E i \in 1..Len(err) : err[i] = "ErrStackAlreadyExists"

\* archer.Project.RequiresDNSDelegation
RequiresDNSDelegation(p) == p.Domain # ""

\* deploy.CreateEnvironmentResponse.Env of a successful creation
CreatedEnv ==
    [Name |-> EnvName, Project |-> ProjectName,
     AccountID |-> envAccount, Region |-> Region]

Calls == {trace[i].call : i \in 1..Len(trace)}
CallCount(name) == Cardinality({i \in 1..Len(trace) : trace[i].call = name})
CallIndex(name) == CHOOSE i \in 1..Len(trace) : trace[i].call = name

Called(name, res) == trace' = Append(trace, [call |-> name, res |-> res])

\* "return err" / "return nil" of an Execute
Return(err) ==
    /\ pc' = "done"
    /\ returned' = returned + 1
    /\ retErr' = err

Goto(label) ==
    /\ pc' = label
    /\ UNCHANGED <<returned, retErr>>

NoApp == [template |-> "", changeSet |-> "", ecr |-> "", cf |-> "",
          pkg |-> "", login |-> "none", ecrUsed |-> {}]

\* the texts of the phases of environment creation, in display order
textVPC == "vpc"
textInternetGateway == "internet gateway"
textPublicSubnets == "public subnets"
textPrivateSubnets == "private subnets"
textRouteTables == "route tables"
textECSCluster == "ECS cluster"
textALB == "load balancer"

envProgressOrder ==
    << textVPC, textInternetGateway, textPublicSubnets, textPrivateSubnets,
       textRouteTables, textECSCluster, textALB >>

Texts == {envProgressOrder[i] : i \in 1..Len(envProgressOrder)}

\* the counters of a call before its first event
NoCounts == [text \in Texts |-> 0]

NoProbe == [event |-> <<>>, phases |-> {}]

\* no error value of SecretsManager.CreateSecret
NoSecretErr == [kind |-> "nil", secretName |-> "", cause |-> <<>>]

NoSecretCall == [stage |-> "idle", name |-> "", value |-> "",
                 backend |-> <<>>, err |-> NoSecretErr]

\* "app init" before its first invocation: nothing stored, written or created
NoInitApp == [pc |-> "idle", AppName |-> "", AppType |-> "",
              proj |-> "", manifestPath |-> "",
              calls |-> <<>>, prog |-> <<>>, returned |-> FALSE, err |-> <<>>,
              stored |-> {}, manifests |-> {}, repos |-> {},
              pre |-> [stored |-> {}, manifests |-> {}, repos |-> {}],
              runs |-> 0]

\* the opts of a command before its RunE ran
NoCli == [command |-> "none", stage |-> "idle",
          project |-> "", EnvName |-> "", EnvProfile |-> "",
          AppName |-> "", ImageTag |-> "",
          apps |-> <<>>, envs |-> <<>>, profiles |-> <<>>,
          profileSess |-> "none",
          failedIn |-> "", stepErr |-> Nil, err |-> Nil,
          executed |-> 0, execSess |-> "none"]

\* stack.NameForApp(project, env, app)
NameForApp(proj, env, application) == proj \o "-" \o env \o "-" \o application

----------------------------------------------------------------------------
Init ==
    /\ project \in [Name : {ProjectName}, AccountID : {ProjectAccount},
                    Domain : Domains]
    /\ envAccount \in Accounts
    /\ stackExists = FALSE
    /\ dnsGranted = {}
    /\ linked = {}
    /\ registry = {}
    /\ appStack = <<>>
    /\ imagePushed = FALSE
    /\ issued = {}
    /\ cmd = "none"
    /\ pc = "idle"
    /\ trace = <<>>
    /\ prog = <<>>
    /\ returned = 0
    /\ retErr = Nil
    /\ pre = [stack |-> FALSE, linked |-> {}, registry |-> {}, failed |-> FALSE,
              applied |-> 0, pushed |-> FALSE]
    /\ failedAfterStack = FALSE
    /\ wpc = "off"
    /\ sent = <<>>
    /\ evChan = <<>>
    /\ evClosed = FALSE
    /\ respChan = <<>>
    /\ respSent = FALSE
    /\ shown = <<>>
    /\ resp = <<>>
    /\ app = NoApp
    /\ cli = NoCli
    /\ probe = NoProbe
    /\ hpc = "idle"
    /\ counts = NoCounts
    /\ fed = NoCounts
    /\ carried = NoCounts
    /\ rows = <<>>
    /\ ignored = 0
    /\ sm = NoSecretCall
    /\ ainit = NoInitApp

\* A new invocation of a command: fresh opts, fresh channels.
Invoke(command, first) ==
    /\ pc \in {"idle", "done"}
    /\ cmd' = command
    /\ pc' = first
    /\ trace' = <<>>
    /\ prog' = <<>>
    /\ returned' = 0
    /\ retErr' = Nil
    /\ pre' = [stack |-> stackExists, linked |-> linked,
               registry |-> registry, failed |-> failedAfterStack,
               applied |-> Len(appStack), pushed |-> imagePushed]
    /\ wpc' = "off"
    /\ sent' = <<>>
    /\ evChan' = <<>>
    /\ evClosed' = FALSE
    /\ respChan' = <<>>
    /\ respSent' = FALSE
    /\ shown' = <<>>
    /\ resp' = <<>>
    /\ app' = NoApp
    /\ UNCHANGED <<world, backendEnv, backendApp, failedAfterStack>>

----------------------------------------------------------------------------
\* initEnvOpts.Execute

initEnv_Start == Invoke("env init", "GetProject")

\* Variant of initEnv_GetProject that wraps the registry's error.
initEnv_GetProject_Wrapped ==
    /\ cmd = "env init" /\ pc = "GetProject"
    /\ \E res \in {Nil} \cup BackendErrs :
        /\ Called("GetProject", res)
        /\ IF res # Nil THEN Return(Wrap("get project", res))
                        ELSE Goto("identity.Get")
    /\ UNCHANGED <<world, backendEnv, backendApp, cmd, prog, pre,
                   failedAfterStack, stream, app>>

\* project, err := o.projectGetter.GetProject(o.ProjectName())
initEnv_GetProject ==
    /\ cmd = "env init" /\ pc = "GetProject"
    /\ \E res \in {Nil} \cup BackendErrs :
        /\ Called("GetProject", res)
        /\ IF res # Nil THEN Return(res) ELSE Goto("identity.Get")
    /\ UNCHANGED <<world, backendEnv, backendApp, cmd, prog, pre,
                   failedAfterStack, stream, app>>

\* caller, err := o.identity.Get(); then the branch on RequiresDNSDelegation
initEnv_IdentityGet ==
    /\ cmd = "env init" /\ pc = "identity.Get"
    /\ \E res \in {Nil} \cup BackendErrs :
        /\ Called("identity.Get", res)
        /\ IF res # Nil
           THEN Return(Wrap("get identity", res))
           ELSE IF RequiresDNSDelegation(project)
                THEN Goto("envIdentity.Get")
                ELSE Goto("DeployEnvironment")
    /\ UNCHANGED <<world, backendEnv, backendApp, cmd, prog, pre,
                   failedAfterStack, stream, app>>

\* Variant of initEnv_EnvIdentityGet that skips the same-account comparison.
initEnv_EnvIdentityGet_NoAccountCheck ==
    /\ cmd = "env init" /\ pc = "envIdentity.Get"
    /\ \E res \in {Nil} \cup BackendErrs :
        /\ Called("envIdentity.Get", res)
        /\ IF res # Nil
           THEN Return(Wrap("granting DNS permissions",
                    Wrap("getting environment account ID for DNS Delegation", res)))
           ELSE Goto("DelegateDNSPermissions")
    /\ UNCHANGED <<world, backendEnv, backendApp, cmd, prog, pre,
                   failedAfterStack, stream, app>>

\* delegateDNSFromProject: envAccount, err := o.envIdentity.Get() and the
\* same-account comparison
initEnv_EnvIdentityGet ==
    /\ cmd = "env init" /\ pc = "envIdentity.Get"
    /\ \E res \in {Nil} \cup BackendErrs :
        /\ Called("envIdentity.Get", res)
        /\ IF res # Nil
           THEN Return(Wrap("granting DNS permissions",
                    Wrap("getting environment account ID for DNS Delegation", res)))
           ELSE IF envAccount = project.AccountID
                THEN Goto("DeployEnvironment")
                ELSE Goto("DelegateDNSPermissions")
    /\ UNCHANGED <<world, backendEnv, backendApp, cmd, prog, pre,
                   failedAfterStack, stream, app>>

\* Variant of initEnv_DelegateDNSPermissions that goes on after a failure.
initEnv_DelegateDNSPermissions_IgnoreError ==
    /\ cmd = "env init" /\ pc = "DelegateDNSPermissions"
    /\ \E res \in {Nil} \cup BackendErrs :
        /\ Called("DelegateDNSPermissions", res)
        /\ prog' = Append(prog, "Start")
        /\ dnsGranted' = IF res = Nil THEN dnsGranted \cup {envAccount}
                                      ELSE dnsGranted
        /\ Goto("DeployEnvironment")
    /\ UNCHANGED <<world, stackExists, linked, registry, backendApp, cmd, pre,
                   failedAfterStack, stream, app>>

\* delegateDNSFromProject: prog.Start, o.projDeployer.DelegateDNSPermissions
initEnv_DelegateDNSPermissions ==
    /\ cmd = "env init" /\ pc = "DelegateDNSPermissions"
    /\ \E res \in {Nil} \cup BackendErrs :
        /\ Called("DelegateDNSPermissions", res)
        /\ IF res # Nil
           THEN /\ prog' = prog \o <<"Start", "Stop">>
                /\ Return(Wrap("granting DNS permissions", res))
                /\ UNCHANGED dnsGranted
           ELSE /\ prog' = Append(prog, "Start")
                /\ dnsGranted' = dnsGranted \cup {envAccount}
                /\ Goto("DeployEnvironment")
    /\ UNCHANGED <<world, stackExists, linked, registry, backendApp, cmd, pre,
                   failedAfterStack, stream, app>>

\* Backend contract of cloudformation.DeployEnvironment: a create request for
\* an existing stack is rejected with ErrStackAlreadyExists; any request can
\* be rejected for another reason.
DeployEnvironmentResults ==
    IF stackExists THEN {ErrStackAlreadyExists} \cup BackendErrs
                   ELSE {Nil} \cup BackendErrs

\* Variant of initEnv_DeployEnvironment without the errors.As branch: an
\* existing stack is reported as any other failure.
initEnv_DeployEnvironment_NoShortCircuit ==
    /\ cmd = "env init" /\ pc = "DeployEnvironment"
    /\ \E res \in DeployEnvironmentResults :
        /\ Called("DeployEnvironment", res)
        /\ IF res = Nil
           THEN /\ stackExists' = TRUE
                /\ prog' = Append(prog, "Start")
                /\ Goto("StreamEnvironmentCreation")
           ELSE /\ UNCHANGED stackExists
                /\ prog' = prog \o <<"Start", "Stop">>
                /\ Return(res)
    /\ UNCHANGED <<world, dnsGranted, linked, registry, backendApp, cmd, pre,
                   failedAfterStack, stream, app>>

\* Variant of initEnv_DeployEnvironment whose errors.As branch does not return:
\* with an existing stack the workflow goes on to stream, link and persist.
initEnv_DeployEnvironment_FallThrough ==
    /\ cmd = "env init" /\ pc = "DeployEnvironment"
    /\ \E res \in DeployEnvironmentResults :
        /\ Called("DeployEnvironment", res)
        /\ IF res = Nil \/ IsStackAlreadyExists(res)
           THEN /\ stackExists' = TRUE
                /\ prog' = Append(prog, "Start")
                /\ Goto("StreamEnvironmentCreation")
           ELSE /\ UNCHANGED stackExists
                /\ prog' = prog \o <<"Start", "Stop">>
                /\ Return(res)
    /\ UNCHANGED <<world, dnsGranted, linked, registry, backendApp, cmd, pre,
                   failedAfterStack, stream, app>>

\* prog.Start, o.envDeployer.DeployEnvironment(deployEnvInput) and the
\* handling of its error
initEnv_DeployEnvironment ==
    /\ cmd = "env init" /\ pc = "DeployEnvironment"
    /\ \E res \in DeployEnvironmentResults :
        /\ Called("DeployEnvironment", res)
        /\ IF res = Nil
           THEN /\ stackExists' = TRUE
                /\ prog' = Append(prog, "Start")
                /\ Goto("StreamEnvironmentCreation")
           ELSE /\ UNCHANGED stackExists
                /\ prog' = prog \o <<"Start", "Stop">>
                /\ IF IsStackAlreadyExists(res)
                   THEN Return(Nil)     \* Do nothing if the stack already exists.
                   ELSE Return(res)
    /\ UNCHANGED <<world, dnsGranted, linked, registry, backendApp, cmd, pre,
                   failedAfterStack, stream, app>>

\* prog.Start, stackEvents, responses := StreamEnvironmentCreation(...):
\* the background watcher starts
initEnv_StreamEnvironmentCreation ==
    /\ cmd = "env init" /\ pc = "StreamEnvironmentCreation"
    /\ Called("StreamEnvironmentCreation", Nil)
    /\ prog' = Append(prog, "Start")
    /\ wpc' = "sending"
    /\ Goto("range")
    /\ UNCHANGED <<world, backendEnv, backendApp, cmd, pre, failedAfterStack,
                   sent, evChan, evClosed, respChan, respSent, shown, resp, app>>

\* Background watcher: sends one batch of events on the event channel.
Watcher_Send ==
    /\ wpc = "sending"
    /\ Len(sent) < MaxEvents
    /\ Len(evChan) < EventChanCap
    /\ \E b \in EventBatches :
        /\ sent' = Append(sent, b)
        /\ evChan' = Append(evChan, b)
    /\ UNCHANGED <<world, backendEnv, backendApp, cmd, pc, trace, prog,
                   returned, retErr, pre, failedAfterStack, wpc, evClosed,
                   respChan, respSent, shown, resp, app>>

\* Background watcher: closes the event channel.
Watcher_Close ==
    /\ wpc = "sending"
    /\ wpc' = "closed"
    /\ evClosed' = TRUE
    /\ UNCHANGED <<world, backendEnv, backendApp, cmd, pc, trace, prog,
                   returned, retErr, pre, failedAfterStack, sent, evChan,
                   respChan, respSent, shown, resp, app>>

NoEnv == [Name |-> "", Project |-> "", AccountID |-> "", Region |-> ""]

\* Background watcher: delivers the one terminal result.
Watcher_Result ==
    /\ wpc \in {"sending", "closed"}
    /\ ~respSent
    /\ \E r \in {[Err |-> Nil, Env |-> CreatedEnv]}
            \cup {[Err |-> e, Env |-> NoEnv] : e \in BackendErrs} :
        respChan' = <<r>>
    /\ respSent' = TRUE
    /\ UNCHANGED <<world, backendEnv, backendApp, cmd, pc, trace, prog,
                   returned, retErr, pre, failedAfterStack, wpc, sent, evChan,
                   evClosed, shown, resp, app>>

\* for stackEvent := range stackEvents { o.prog.Events(humanize(stackEvent)) }
\* one iteration: receive a batch and hand it to the progress display
initEnv_RangeEvent ==
    /\ cmd = "env init" /\ pc = "range"
    /\ evChan # <<>>
    /\ shown' = Append(shown, Head(evChan))
    /\ evChan' = Tail(evChan)
    /\ prog' = Append(prog, "Events")
    /\ UNCHANGED <<world, backendEnv, backendApp, cmd, pc, trace, returned,
                   retErr, pre, failedAfterStack, wpc, sent, evClosed,
                   respChan, respSent, resp, app>>

\* Variant of initEnv_RangeClosed that leaves the loop as soon as no batch is
\* waiting, whether or not the channel is closed.
initEnv_RangeClosed_Early ==
    /\ cmd = "env init" /\ pc = "range"
    /\ evChan = <<>>
    /\ Goto("responses")
    /\ UNCHANGED <<world, backendEnv, backendApp, cmd, trace, prog, pre,
                   failedAfterStack, stream, app>>

\* Variant of initEnv_RangeClosed that keeps receiving from the closed channel.
initEnv_RangeClosed_NoExit ==
    /\ cmd = "env init" /\ pc = "range"
    /\ evChan = <<>> /\ evClosed
    /\ UNCHANGED vars

\* the range loop ends when the channel is closed and drained
initEnv_RangeClosed ==
    /\ cmd = "env init" /\ pc = "range"
    /\ evChan = <<>> /\ evClosed
    /\ Goto("responses")
    /\ UNCHANGED <<world, backendEnv, backendApp, cmd, trace, prog, pre,
                   failedAfterStack, stream, app>>

\* Variant of initEnv_Responses that takes the result as soon as it is
\* delivered, also while the event loop is still running.
initEnv_Responses_Early ==
    /\ cmd = "env init" /\ pc \in {"range", "responses"}
    /\ respChan # <<>>
    /\ resp' = <<Head(respChan)>>
    /\ respChan' = Tail(respChan)
    /\ prog' = Append(prog, "Stop")
    /\ IF Head(respChan).Err # Nil
       THEN Return(Head(respChan).Err)
       ELSE Goto("AddEnvToProject")
    /\ UNCHANGED <<world, backendEnv, backendApp, cmd, trace, pre,
                   failedAfterStack, wpc, sent, evChan, evClosed, respSent,
                   shown, app>>

\* Variant of initEnv_Responses that does not look at resp.Err.
initEnv_Responses_IgnoreErr ==
    /\ cmd = "env init" /\ pc = "responses"
    /\ respChan # <<>>
    /\ resp' = <<Head(respChan)>>
    /\ respChan' = Tail(respChan)
    /\ prog' = Append(prog, "Stop")
    /\ Goto("AddEnvToProject")
    /\ UNCHANGED <<world, backendEnv, backendApp, cmd, trace, pre,
                   failedAfterStack, wpc, sent, evChan, evClosed, respSent,
                   shown, app>>

\* Variant of initEnv_Responses that returns a failed creation without
\* stopping the spinner.
initEnv_Responses_NoStopOnError ==
    /\ cmd = "env init" /\ pc = "responses"
    /\ respChan # <<>>
    /\ resp' = <<Head(respChan)>>
    /\ respChan' = Tail(respChan)
    /\ IF Head(respChan).Err # Nil
       THEN /\ prog' = prog
            /\ Return(Head(respChan).Err)
       ELSE /\ prog' = Append(prog, "Stop")
            /\ Goto("AddEnvToProject")
    /\ UNCHANGED <<world, backendEnv, backendApp, cmd, trace, pre,
                   failedAfterStack, wpc, sent, evChan, evClosed, respSent,
                   shown, app>>

\* resp := <-responses; if resp.Err != nil { prog.Stop; return resp.Err };
\* prog.Stop
initEnv_Responses ==
    /\ cmd = "env init" /\ pc = "responses"
    /\ respChan # <<>>
    /\ resp' = <<Head(respChan)>>
    /\ respChan' = Tail(respChan)
    /\ prog' = Append(prog, "Stop")
    /\ IF Head(respChan).Err # Nil
       THEN Return(Head(respChan).Err)
       ELSE Goto("AddEnvToProject")
    /\ UNCHANGED <<world, backendEnv, backendApp, cmd, trace, pre,
                   failedAfterStack, wpc, sent, evChan, evClosed, respSent,
                   shown, app>>

\* Variant of initEnv_AddEnvToProject that goes on to persist after a failure.
initEnv_AddEnvToProject_IgnoreError ==
    /\ cmd = "env init" /\ pc = "AddEnvToProject"
    /\ prog' = prog \o <<"Start", "Stop">>
    /\ \E res \in {Nil} \cup BackendErrs :
        /\ Called("AddEnvToProject", res)
        /\ linked' = IF res = Nil
                     THEN linked \cup {[AccountID |-> resp[1].Env.AccountID,
                                        Region |-> resp[1].Env.Region]}
                     ELSE linked
        /\ Goto("CreateEnvironment")
        /\ UNCHANGED failedAfterStack
    /\ UNCHANGED <<world, stackExists, dnsGranted, registry, backendApp, cmd,
                   pre, stream, app>>

\* prog.Start, o.projDeployer.AddEnvToProject(project, resp.Env), prog.Stop
initEnv_AddEnvToProject ==
    /\ cmd = "env init" /\ pc = "AddEnvToProject"
    /\ prog' = prog \o <<"Start", "Stop">>
    /\ \E res \in {Nil} \cup BackendErrs :
        /\ Called("AddEnvToProject", res)
        /\ IF res # Nil
           THEN /\ Return(Wrap("deploy env to project", res))
                /\ failedAfterStack' = TRUE
                /\ UNCHANGED linked
           ELSE /\ linked' = linked \cup {[AccountID |-> resp[1].Env.AccountID,
                                           Region |-> resp[1].Env.Region]}
                /\ Goto("CreateEnvironment")
                /\ UNCHANGED failedAfterStack
    /\ UNCHANGED <<world, stackExists, dnsGranted, registry, backendApp, cmd,
                   pre, stream, app>>

\* o.envCreator.CreateEnvironment(resp.Env); return nil
initEnv_CreateEnvironment ==
    /\ cmd = "env init" /\ pc = "CreateEnvironment"
    /\ \E res \in {Nil} \cup BackendErrs :
        /\ Called("CreateEnvironment", res)
        /\ IF res # Nil
           THEN /\ Return(Wrap("store environment", res))
                /\ failedAfterStack' = TRUE
                /\ UNCHANGED registry
           ELSE /\ registry' = registry \cup {resp[1].Env.Name}
                /\ Return(Nil)
                /\ UNCHANGED failedAfterStack
    /\ UNCHANGED <<world, stackExists, dnsGranted, linked, backendApp, cmd,
                   prog, pre, stream, app>>

initEnv_Execute ==
    \/ initEnv_GetProject
    \/ initEnv_IdentityGet
    \/ initEnv_EnvIdentityGet
    \/ initEnv_DelegateDNSPermissions
    \/ initEnv_DeployEnvironment
    \/ initEnv_StreamEnvironmentCreation
    \/ initEnv_RangeEvent
    \/ initEnv_RangeClosed
    \/ initEnv_Responses
    \/ initEnv_AddEnvToProject
    \/ initEnv_CreateEnvironment

Watcher == Watcher_Send \/ Watcher_Close \/ Watcher_Result

----------------------------------------------------------------------------
\* appDeployOpts.Execute

AppFrame == <<world, backendEnv, cmd, pre, failedAfterStack, stream>>

\* One collaborator call whose failure is returned wrapped with msg (msg = ""
\* returns it bare) and whose success continues at next.
AppStep(here, name, results, msg, next) ==
    /\ cmd = "app deploy" /\ pc = here
    /\ \E res \in results :
        /\ Called(name, res)
        /\ IF res # Nil
           THEN Return(IF msg = "" THEN res ELSE Wrap(msg, res))
           ELSE Goto(next)

appDeploy_Start ==
    /\ Len(appStack) < MaxChangeSets
    /\ Invoke("app deploy", "targetEnv")

\* Registry contract of GetEnvironment: only a persisted record is found.
GetEnvironmentResults ==
    IF EnvName \in registry THEN {Nil} \cup BackendErrs
                            ELSE {<<"ErrNoSuchEnvironment">>} \cup BackendErrs

\* env, err := o.targetEnv()
appDeploy_targetEnv ==
    /\ AppStep("targetEnv", "GetEnvironment", GetEnvironmentResults,
               "get environment from metadata store", "DefaultWithRegion")
    /\ UNCHANGED <<AppFrame, backendApp, prog, app>>

\* configureClients: o.sessProvider.DefaultWithRegion(region)
appDeploy_DefaultWithRegion ==
    /\ AppStep("DefaultWithRegion", "DefaultWithRegion", {Nil} \cup BackendErrs,
               "create ECR session with region", "FromRole")
    /\ UNCHANGED <<AppFrame, backendApp, prog, app>>

\* Variant of appDeploy_FromRole that builds the deploy client from the default
\* session instead of the assumed-role session.
appDeploy_FromRole_DefaultClient ==
    /\ AppStep("FromRole", "FromRole", {Nil} \cup BackendErrs,
               "assuming environment manager role", "Default")
    /\ app' = IF pc' = "Default"
              THEN [app EXCEPT !.ecr = "default@" \o Region,
                               !.cf = "default@" \o Region]
              ELSE app
    /\ UNCHANGED <<AppFrame, backendApp, prog>>

\* configureClients: o.sessProvider.FromRole(ManagerRoleARN, Region), then
\* ecrService and appDeployCfClient are built
appDeploy_FromRole ==
    /\ AppStep("FromRole", "FromRole", {Nil} \cup BackendErrs,
               "assuming environment manager role", "Default")
    /\ app' = IF pc' = "Default"
              THEN [app EXCEPT !.ecr = "default@" \o Region,
                               !.cf = "EnvManagerRole@" \o Region]
              ELSE app
    /\ UNCHANGED <<AppFrame, backendApp, prog>>

\* Variant of appDeploy_Default that carries on when the session could not be
\* created.
appDeploy_Default_IgnoreError ==
    /\ cmd = "app deploy" /\ pc = "Default"
    /\ \E res \in {Nil} \cup BackendErrs :
        /\ Called("Default", res)
        /\ app' = IF res = Nil THEN [app EXCEPT !.pkg = "default"] ELSE app
    /\ Goto("GetRepository")
    /\ UNCHANGED <<AppFrame, backendApp, prog>>

\* configureClients: o.sessProvider.Default(), then appPackageCfClient is built
appDeploy_Default ==
    /\ AppStep("Default", "Default", {Nil} \cup BackendErrs,
               "create app package CF session", "GetRepository")
    /\ app' = IF pc' = "GetRepository" THEN [app EXCEPT !.pkg = "default"]
                                       ELSE app
    /\ UNCHANGED <<AppFrame, backendApp, prog>>

\* uri, err := o.ecrService.GetRepository(repoName)
appDeploy_GetRepository ==
    /\ AppStep("GetRepository", "GetRepository", {Nil} \cup BackendErrs,
               "get ECR repository URI", "getAppDockerfilePath")
    /\ app' = [app EXCEPT !.ecrUsed = @ \cup {app.ecr}]
    /\ UNCHANGED <<AppFrame, backendApp, prog>>

\* appDockerfilePath, err := o.getAppDockerfilePath()
appDeploy_getAppDockerfilePath ==
    /\ cmd = "app deploy" /\ pc = "getAppDockerfilePath"
    /\ \/ \E res \in BackendErrs :
            /\ Called("ReadAppManifest", res)
            /\ Return(Wrap("read manifest file", res))
       \/ \E res \in {Nil, <<"yaml">>} :
            /\ trace' = trace \o <<[call |-> "ReadAppManifest", res |-> Nil],
                                   [call |-> "UnmarshalApp", res |-> res]>>
            /\ IF res # Nil THEN Return(Wrap("unmarshal app manifest", res))
                            ELSE Goto("Build")
    /\ UNCHANGED <<AppFrame, backendApp, prog, app>>

\* o.dockerService.Build(uri, o.ImageTag, appDockerfilePath)
appDeploy_Build ==
    /\ AppStep("Build", "Build", {Nil} \cup BackendErrs,
               "build Dockerfile", "GetECRAuth")
    /\ UNCHANGED <<AppFrame, backendApp, prog, app>>

\* auth, err := o.ecrService.GetECRAuth()
appDeploy_GetECRAuth ==
    /\ AppStep("GetECRAuth", "GetECRAuth", {Nil} \cup BackendErrs,
               "get ECR auth data", "Login")
    /\ app' = [app EXCEPT !.ecrUsed = @ \cup {app.ecr}]
    /\ UNCHANGED <<AppFrame, backendApp, prog>>

\* o.dockerService.Login(uri, auth.Username, auth.Password): the returned
\* error is discarded
appDeploy_Login ==
    /\ cmd = "app deploy" /\ pc = "Login"
    /\ \E res \in {Nil} \cup BackendErrs :
        /\ Called("Login", res)
        /\ app' = [app EXCEPT !.login = IF res = Nil THEN "ok" ELSE "failed"]
    /\ Goto("Push")
    /\ UNCHANGED <<AppFrame, backendApp, prog>>

\* Variant of appDeploy_Push that carries on to template rendering when the
\* push failed.
appDeploy_Push_IgnoreError ==
    /\ cmd = "app deploy" /\ pc = "Push"
    /\ \E res \in {Nil} \cup BackendErrs :
        /\ Called("Push", res)
        /\ imagePushed' = (imagePushed \/ res = Nil)
    /\ Goto("getAppDeployTemplate")
    /\ UNCHANGED <<AppFrame, appStack, issued, prog, app>>

\* if err = o.dockerService.Push(uri, o.ImageTag); err != nil { return err }
appDeploy_Push ==
    /\ AppStep("Push", "Push", {Nil} \cup BackendErrs, "", "getAppDeployTemplate")
    /\ imagePushed' = (imagePushed \/ pc' = "getAppDeployTemplate")
    /\ UNCHANGED <<AppFrame, appStack, issued, prog, app>>

\* template, err := o.getAppDeployTemplate(): err is overwritten by the next
\* statement before it is read
appDeploy_getAppDeployTemplate ==
    /\ cmd = "app deploy" /\ pc = "getAppDeployTemplate"
    /\ \E res \in {Nil} \cup BackendErrs :
        /\ Called("packageApp.Execute", res)
        /\ app' = [app EXCEPT !.template = IF res = Nil THEN "rendered" ELSE ""]
    /\ Goto("uuid.NewRandom")
    /\ UNCHANGED <<AppFrame, backendApp, prog>>

\* Contract of uuid.NewRandom: an identifier it returned is not returned again.
FreshUUIDs == UUIDs \ issued

\* Variant of appDeploy_NewRandom that names the change set after the stack
\* alone.
appDeploy_NewRandom_NoId ==
    /\ cmd = "app deploy" /\ pc = "uuid.NewRandom"
    /\ \/ /\ Called("uuid.NewRandom", <<"rand">>)
          /\ Return(Wrap("failed to generate random id for changeSet", <<"rand">>))
          /\ UNCHANGED <<app, issued>>
       \/ \E id \in FreshUUIDs :
          /\ Called("uuid.NewRandom", Nil)
          /\ issued' = issued \cup {id}
          /\ app' = [app EXCEPT !.changeSet =
                        NameForApp(ProjectName, EnvName, AppName)]
          /\ Goto("DeployApp")
    /\ UNCHANGED <<AppFrame, appStack, imagePushed, prog>>

\* id, err := uuid.NewRandom(); stackName := stack.NameForApp(...);
\* changeSetName := fmt.Sprintf("%s-%s", stackName, id)
appDeploy_NewRandom ==
    /\ cmd = "app deploy" /\ pc = "uuid.NewRandom"
    /\ \/ /\ Called("uuid.NewRandom", <<"rand">>)
          /\ Return(Wrap("failed to generate random id for changeSet", <<"rand">>))
          /\ UNCHANGED <<app, issued>>
       \/ \E id \in FreshUUIDs :
          /\ Called("uuid.NewRandom", Nil)
          /\ issued' = issued \cup {id}
          /\ app' = [app EXCEPT !.changeSet =
                        NameForApp(ProjectName, EnvName, AppName) \o "-" \o id]
          /\ Goto("DeployApp")
    /\ UNCHANGED <<AppFrame, appStack, imagePushed, prog>>

\* Variant of appDeploy_applyAppDeployTemplate that treats StackAlreadyExists
\* as done, the way environment bring-up does.
appDeploy_applyAppDeployTemplate_ShortCircuit ==
    /\ cmd = "app deploy" /\ pc = "DeployApp"
    /\ \E res \in {Nil, ErrStackAlreadyExists} \cup BackendErrs :
        /\ Called("DeployApp", res)
        /\ IF res # Nil /\ ~IsStackAlreadyExists(res)
           THEN Return(Wrap("deploy application", res))
           ELSE Goto("NewWebAppDescriber")
    /\ prog' = prog \o <<"Start", "Stop">>
    /\ appStack' = Append(appStack,
                     [changeSet |-> app.changeSet, template |-> app.template,
                      via |-> app.cf, ok |-> (pc' = "NewWebAppDescriber"),
                      tags |-> <<ProjectName, EnvName, AppName>>])
    /\ UNCHANGED <<AppFrame, imagePushed, issued, app>>

\* spinner.Start, o.applyAppDeployTemplate(...), spinner.Stop
appDeploy_applyAppDeployTemplate ==
    /\ AppStep("DeployApp", "DeployApp",
               {Nil, ErrStackAlreadyExists} \cup BackendErrs,
               "deploy application", "NewWebAppDescriber")
    /\ prog' = prog \o <<"Start", "Stop">>
    /\ appStack' = Append(appStack,
                     [changeSet |-> app.changeSet, template |-> app.template,
                      via |-> app.cf, ok |-> (pc' = "NewWebAppDescriber"),
                      tags |-> <<ProjectName, EnvName, AppName>>])
    /\ UNCHANGED <<AppFrame, imagePushed, issued, app>>

\* identifier, err := describe.NewWebAppDescriber(project, app)
appDeploy_NewWebAppDescriber ==
    /\ AppStep("NewWebAppDescriber", "NewWebAppDescriber", {Nil} \cup BackendErrs,
               "create identifier for application", "URI")
    /\ UNCHANGED <<AppFrame, backendApp, prog, app>>

\* loadBalancerURI, err := identifier.URI(env); log.Successf; return nil
appDeploy_URI ==
    /\ cmd = "app deploy" /\ pc = "URI"
    /\ \E res \in {Nil} \cup BackendErrs :
        /\ Called("URI", res)
        /\ IF res # Nil
           THEN Return(Wrap("cannot retrieve the URI from environment", res))
           ELSE Return(Nil)
    /\ UNCHANGED <<AppFrame, backendApp, prog, app>>

appDeploy_Execute ==
    \/ appDeploy_targetEnv
    \/ appDeploy_DefaultWithRegion
    \/ appDeploy_FromRole
    \/ appDeploy_Default
    \/ appDeploy_GetRepository
    \/ appDeploy_getAppDockerfilePath
    \/ appDeploy_Build
    \/ appDeploy_GetECRAuth
    \/ appDeploy_Login
    \/ appDeploy_Push
    \/ appDeploy_getAppDeployTemplate
    \/ appDeploy_NewRandom
    \/ appDeploy_applyAppDeployTemplate
    \/ appDeploy_NewWebAppDescriber
    \/ appDeploy_URI

----------------------------------------------------------------------------
\* The command pipeline: RunE of BuildEnvInitCmd and BuildAppDeployCmd.
\* One process runs one command once.

\* what a RunE leaves alone: the state of the Execute workflows
execState == <<project, envAccount, backendEnv, backendApp, cmd, pc, trace,
               prog, returned, retErr, pre, failedAfterStack, stream, app>>

\* values of the flags and of the workspace a command is run in
Workspaces == {"", ProjectName}
EnvNameFlags == {"", EnvName, "bad name"}
ProfileFlags == {"", "default", "prod-admin"}
ProfileConfigs == {<<>>, <<"default", "prod-admin">>}
AppNameFlags == {"", AppName, "ghost"}
AppLists == {<<>>, <<AppName>>, <<AppName, "backend">>}
EnvLists == {<<>>, <<EnvName>>, <<EnvName, "prod">>}
EnvFlags == {"", EnvName, "ghost-env"}
ImageTagFlags == {"", "v1"}
PromptErrs == {<<"prompt interrupted">>}

Range(seq) == {seq[i] : i \in 1..Len(seq)}

\* validateEnvironmentName(name)
validateEnvironmentName(name) ==
    IF name = "bad name" THEN <<"invalid environment name">> ELSE Nil

\* sessProvider.FromProfile(name): the session of the named profile
FromProfile(name) == "profile:" \o name

\* "return err" of a step called by RunE, which RunE returns as it is
CliReturn(c, step, e) ==
    cli' = [c EXCEPT !.stage = "returned", !.failedIn = step,
                     !.stepErr = e, !.err = e]

CliGoto(c, stage) == cli' = [c EXCEPT !.stage = stage]

\* RunE of BuildEnvInitCmd up to opts.Validate: newInitEnvOpts(vars)
initEnv_New ==
    /\ cli.stage = "idle"
    /\ \E p \in Workspaces, n \in EnvNameFlags, pf \in ProfileFlags,
          cfg \in ProfileConfigs :
        LET c == [NoCli EXCEPT !.command = "env init", !.project = p,
                               !.EnvName = n, !.EnvProfile = pf,
                               !.profiles = cfg]
        IN \/ \E e \in BackendErrs :
                \/ CliReturn(c, "store.New", e)
                \/ CliReturn(c, "FromProfile", e)
                \/ CliReturn(c, "Default", e)
                \/ CliReturn(c, "profile.NewConfig",
                             Wrap("read named profiles", e))
           \/ CliGoto([c EXCEPT !.profileSess = FromProfile(pf)], "Validate")
    /\ UNCHANGED <<execState, probe, display, sm, ainit>>

\* initEnvOpts.Validate
initEnv_Validate ==
    /\ cli.command = "env init" /\ cli.stage = "Validate"
    /\ IF cli.EnvName # "" /\ validateEnvironmentName(cli.EnvName) # Nil
       THEN CliReturn(cli, "Validate", validateEnvironmentName(cli.EnvName))
       ELSE IF cli.project = ""
       THEN CliReturn(cli, "Validate", <<"no project found">>)
       ELSE CliGoto(cli, "Ask")
    /\ UNCHANGED <<execState, probe, display, sm, ainit>>

\* initEnvOpts.askEnvName applied to opts c: the opts after it, or an error
askEnvName_Results(c) ==
    IF c.EnvName # ""
    THEN {[opts |-> c, err |-> Nil]}
    ELSE {[opts |-> c, err |-> Wrap("prompt to get environment name", e)] :
             e \in PromptErrs}
         \cup {[opts |-> [c EXCEPT !.EnvName = EnvName], err |-> Nil]}

\* initEnvOpts.askEnvProfile applied to opts c
askEnvProfile_Results(c) ==
    IF c.EnvProfile # ""
    THEN {[opts |-> c, err |-> Nil]}
    ELSE IF Len(c.profiles) = 0
    THEN {[opts |-> c, err |-> <<"errNamedProfilesNotFound">>]}
    ELSE {[opts |-> c, err |-> Wrap("prompt to get the profile name", e)] :
             e \in PromptErrs}
         \cup {[opts |-> [c EXCEPT !.EnvProfile = prof], err |-> Nil] :
                  prof \in Range(c.profiles)}

\* Variant of initEnv_Ask that runs Execute although no profile could be
\* chosen.
initEnv_Ask_IgnoreError ==
    /\ cli.command = "env init" /\ cli.stage = "Ask"
    /\ \E a \in askEnvName_Results(cli) :
         IF a.err # Nil
         THEN CliReturn(a.opts, "Ask", a.err)
         ELSE \E b \in askEnvProfile_Results(a.opts) :
                IF b.err # Nil
                THEN cli' = [b.opts EXCEPT !.stage = "Execute",
                                           !.failedIn = "Ask",
                                           !.stepErr = b.err]
                ELSE CliGoto(b.opts, "Execute")
    /\ UNCHANGED <<execState, probe, display, sm, ainit>>

\* initEnvOpts.Ask
initEnv_Ask ==
    /\ cli.command = "env init" /\ cli.stage = "Ask"
    /\ \E a \in askEnvName_Results(cli) :
         IF a.err # Nil
         THEN CliReturn(a.opts, "Ask", a.err)
         ELSE \E b \in askEnvProfile_Results(a.opts) :
                IF b.err # Nil
                THEN CliReturn(b.opts, "Ask", b.err)
                ELSE CliGoto(b.opts, "Execute")
    /\ UNCHANGED <<execState, probe, display, sm, ainit>>

\* return opts.Execute(): the stack is deployed through envDeployer and the
\* account is read through envIdentity, both built on profileSess
initEnv_RunExecute ==
    /\ cli.command = "env init" /\ cli.stage = "Execute"
    /\ \E e \in {Nil} \cup BackendErrs :
        cli' = [cli EXCEPT !.stage = "returned", !.err = e,
                           !.executed = @ + 1,
                           !.execSess = cli.profileSess]
    /\ UNCHANGED <<execState, probe, display, sm, ainit>>

BuildEnvInitCmd ==
    \/ initEnv_New
    \/ initEnv_Validate
    \/ initEnv_Ask
    \/ initEnv_RunExecute

\* RunE of BuildAppDeployCmd up to opts.Validate: newAppDeployOpts(vars)
appDeploy_New ==
    /\ cli.stage = "idle"
    /\ \E p \in Workspaces, a \in AppNameFlags, n \in EnvFlags,
          t \in ImageTagFlags, as \in AppLists, es \in EnvLists :
        LET c == [NoCli EXCEPT !.command = "app deploy", !.project = p,
                               !.AppName = a, !.EnvName = n, !.ImageTag = t,
                               !.apps = as, !.envs = es]
        IN \/ \E e \in BackendErrs :
                \/ CliReturn(c, "store.New",
                             Wrap("create project service", e))
                \/ CliReturn(c, "workspace.New",
                             Wrap("intialize workspace service", e))
           \/ CliGoto(c, "Validate")
    /\ UNCHANGED <<execState, probe, display, sm, ainit>>

\* appDeployOpts.validateAppName
validateAppName_Results(c) ==
    {Wrap("list applications in the workspace", e) : e \in BackendErrs}
    \cup {IF c.AppName \in Range(c.apps)
          THEN Nil
          ELSE <<"application not found in the workspace">>}

\* appDeployOpts.validateEnvName: targetEnv, GetEnvironment
validateEnvName_Results(c) ==
    {Wrap("get environment from metadata store", e) : e \in BackendErrs}
    \cup {IF c.EnvName \in Range(c.envs)
          THEN Nil
          ELSE Wrap("get environment from metadata store",
                    <<"ErrNoSuchEnvironment">>)}

\* appDeployOpts.Validate
appDeploy_Validate ==
    /\ cli.command = "app deploy" /\ cli.stage = "Validate"
    /\ IF cli.project = ""
       THEN CliReturn(cli, "Validate", <<"errNoProjectInWorkspace">>)
       ELSE \E ea \in (IF cli.AppName # "" THEN validateAppName_Results(cli)
                                            ELSE {Nil}) :
              IF ea # Nil
              THEN CliReturn(cli, "Validate", ea)
              ELSE \E ee \in (IF cli.EnvName # ""
                               THEN validateEnvName_Results(cli)
                               ELSE {Nil}) :
                     IF ee # Nil
                     THEN CliReturn(cli, "Validate", ee)
                     ELSE CliGoto(cli, "Ask")
    /\ UNCHANGED <<execState, probe, display, sm, ainit>>

\* appDeployOpts.askAppName applied to opts c: the opts after it, or an error
askAppName_Results(c) ==
    IF c.AppName # ""
    THEN {[opts |-> c, err |-> Nil]}
    ELSE {[opts |-> c, err |-> Wrap("list applications in workspace", e)] :
             e \in BackendErrs}
         \cup
         (IF Len(c.apps) = 0
          THEN {[opts |-> c,
                 err |-> <<"no applications found in the workspace">>]}
          ELSE IF Len(c.apps) = 1
          THEN {[opts |-> [c EXCEPT !.AppName = c.apps[1]], err |-> Nil]}
          ELSE {[opts |-> c, err |-> Wrap("select app name", e)] :
                   e \in PromptErrs}
               \cup {[opts |-> [c EXCEPT !.AppName = name], err |-> Nil] :
                        name \in Range(c.apps)})

\* appDeployOpts.askEnvName applied to opts c
appDeploy_askEnvName_Results(c) ==
    IF c.EnvName # ""
    THEN {[opts |-> c, err |-> Nil]}
    ELSE {[opts |-> c,
           err |-> Wrap("get environments for project from metadata store", e)] :
             e \in BackendErrs}
         \cup
         (IF Len(c.envs) = 0
          THEN {[opts |-> c, err |-> <<"no environments found in project">>]}
          ELSE IF Len(c.envs) = 1
          THEN {[opts |-> [c EXCEPT !.EnvName = c.envs[1]], err |-> Nil]}
          ELSE {[opts |-> c, err |-> Wrap("select env name", e)] :
                   e \in PromptErrs}
               \cup {[opts |-> [c EXCEPT !.EnvName = name], err |-> Nil] :
                        name \in Range(c.envs)})

\* appDeployOpts.askImageTag applied to opts c
askImageTag_Results(c) ==
    IF c.ImageTag # ""
    THEN {[opts |-> c, err |-> Nil]}
    ELSE {[opts |-> [c EXCEPT !.ImageTag = "gitsha"], err |-> Nil],
          [opts |-> [c EXCEPT !.ImageTag = "usertag"], err |-> Nil]}
         \cup {[opts |-> c, err |-> Wrap("prompt for image tag", e)] :
                  e \in PromptErrs}

\* appDeployOpts.Ask
appDeploy_Ask ==
    /\ cli.command = "app deploy" /\ cli.stage = "Ask"
    /\ \E a \in askAppName_Results(cli) :
         IF a.err # Nil
         THEN CliReturn(a.opts, "Ask", a.err)
         ELSE \E b \in appDeploy_askEnvName_Results(a.opts) :
                IF b.err # Nil
                THEN CliReturn(b.opts, "Ask", b.err)
                ELSE \E t \in askImageTag_Results(b.opts) :
                       IF t.err # Nil
                       THEN CliReturn(t.opts, "Ask", t.err)
                       ELSE CliGoto(t.opts, "Execute")
    /\ UNCHANGED <<execState, probe, display, sm, ainit>>

\* if err := opts.Execute(); err != nil { return err }; return nil
appDeploy_RunExecute ==
    /\ cli.command = "app deploy" /\ cli.stage = "Execute"
    /\ \E e \in {Nil} \cup BackendErrs :
        cli' = [cli EXCEPT !.stage = "returned", !.err = e,
                           !.executed = @ + 1]
    /\ UNCHANGED <<execState, probe, display, sm, ainit>>

BuildAppDeployCmd ==
    \/ appDeploy_New
    \/ appDeploy_Validate
    \/ appDeploy_Ask
    \/ appDeploy_RunExecute

CliNext ==
    \/ BuildEnvInitCmd
    \/ BuildAppDeployCmd

CliSpec == Init /\ [][CliNext]_vars

----------------------------------------------------------------------------
\* The phases of environment creation and their matchers
\* (humanizeEnvironmentEvents).  A resource type is the sequence of the parts
\* of its name ("AWS::EC2::VPC" is <<"AWS", "EC2", "VPC">>), a logical name is
\* the sequence of its words ("PublicSubnet" is <<"Public", "Subnet">>).

ResourceTypes ==
    { <<"AWS", "EC2", "VPC">>,
      <<"AWS", "EC2", "InternetGateway">>,
      <<"AWS", "EC2", "VPCGatewayAttachment">>,
      <<"AWS", "EC2", "Subnet">>,
      <<"AWS", "EC2", "RouteTable">>,
      <<"AWS", "EC2", "SecurityGroup">>,
      <<"AWS", "ECS", "Cluster">>,
      <<"AWS", "ElasticLoadBalancingV2", "LoadBalancer">> }

NameWords ==
    {"Public", "Private", "Subnet", "Route", "LoadBalancer", "Cluster", "VPC"}

LogicalNames == UNION {[1..n -> NameWords] : n \in 1..MaxNameLen}

Resources == [Type : ResourceTypes, LogicalName : LogicalNames]

\* strings.HasPrefix(s, word)
HasPrefix(s, word) == Len(s) > 0 /\ s[1] = word

\* strings.Contains(s, word)
Contains(s, word) == \E i \in 1..Len(s) : s[i] = word

\* matcher[text](event)
matcher(text, event) ==
    CASE text = textVPC ->
            event.Type = <<"AWS", "EC2", "VPC">>
      [] text = textInternetGateway ->
            \/ event.Type = <<"AWS", "EC2", "InternetGateway">>
            \/ event.Type = <<"AWS", "EC2", "VPCGatewayAttachment">>
      [] text = textPublicSubnets ->
            /\ event.Type = <<"AWS", "EC2", "Subnet">>
            /\ HasPrefix(event.LogicalName, "Public")
      [] text = textPrivateSubnets ->
            /\ event.Type = <<"AWS", "EC2", "Subnet">>
            /\ HasPrefix(event.LogicalName, "Private")
      [] text = textRouteTables ->
            Contains(event.LogicalName, "Route")
      [] text = textECSCluster ->
            event.Type = <<"AWS", "ECS", "Cluster">>
      [] text = textALB ->
            \/ Contains(event.LogicalName, "LoadBalancer")
            \/ Contains(event.Type, "ElasticLoadBalancingV2")

resourceCounts ==
    [text \in Texts |->
        CASE text = textVPC -> 1
          [] text = textInternetGateway -> 2
          [] text = textPublicSubnets -> 2
          [] text = textPrivateSubnets -> 2
          [] text = textRouteTables -> 4
          [] text = textECSCluster -> 1
          [] text = textALB -> 4]

MatchingTexts(event) == {text \in Texts : matcher(text, event)}

\* what the matchers leave alone
matchFrame == <<execState, cli, display, sm, ainit>>

\* Variant of humanizeEnvironmentEvents_Match whose public-subnet matcher
\* looks at the logical name only.
humanizeEnvironmentEvents_Match_NoType ==
    /\ probe = NoProbe
    /\ \E event \in Resources :
        probe' = [event |-> event,
                  phases |-> MatchingTexts(event) \cup
                     (IF HasPrefix(event.LogicalName, "Public")
                      THEN {textPublicSubnets} ELSE {})]
    /\ UNCHANGED matchFrame

\* One resource is put to every matcher of humanizeEnvironmentEvents.
humanizeEnvironmentEvents_Match ==
    /\ probe = NoProbe
    /\ \E event \in Resources :
        probe' = [event |-> event, phases |-> MatchingTexts(event)]
    /\ UNCHANGED matchFrame

MatchNext == humanizeEnvironmentEvents_Match

MatchSpec == Init /\ [][MatchNext]_vars

----------------------------------------------------------------------------
\* The event display: for stackEvent := range stackEvents
\*     { o.prog.Events(o.humanizeEnvironmentEvents(stackEvent)) }
\* Every batch is humanized by a call of its own; a call counts, per phase,
\* the events of its batch the phase's matcher accepts, up to the expected
\* count, and returns one row per phase in the order of envProgressOrder.

\* events of the environment stack: one resource per phase, one resource no
\* phase matches and one resource two phases match
StackEvents ==
    { [Type |-> <<"AWS", "EC2", "VPC">>, LogicalName |-> <<"VPC">>],
      [Type |-> <<"AWS", "EC2", "InternetGateway">>,
       LogicalName |-> <<"InternetGateway">>],
      [Type |-> <<"AWS", "EC2", "Subnet">>,
       LogicalName |-> <<"Public", "Subnet">>],
      [Type |-> <<"AWS", "EC2", "Subnet">>,
       LogicalName |-> <<"Private", "Subnet">>],
      [Type |-> <<"AWS", "EC2", "RouteTable">>,
       LogicalName |-> <<"Public", "Route", "Table">>],
      [Type |-> <<"AWS", "ECS", "Cluster">>, LogicalName |-> <<"Cluster">>],
      [Type |-> <<"AWS", "ElasticLoadBalancingV2", "LoadBalancer">>,
       LogicalName |-> <<"Public", "LoadBalancer">>],
      [Type |-> <<"AWS", "EC2", "SecurityGroup">>,
       LogicalName |-> <<"Environment", "SecurityGroup">>],
      [Type |-> <<"AWS", "EC2", "Subnet">>,
       LogicalName |-> <<"Public", "Route", "Subnet">>] }

\* the phases every event of the stack matches
Hits == [event \in StackEvents |-> MatchingTexts(event)]

Total(f) ==
    f[textVPC] + f[textInternetGateway] + f[textPublicSubnets]
    + f[textPrivateSubnets] + f[textRouteTables] + f[textECSCluster]
    + f[textALB]

Min(a, b) == IF a < b THEN a ELSE b

\* matching events of the stream beyond the expected count of their phase
Excess(f) ==
    [text \in Texts |->
        IF f[text] > resourceCounts[text] THEN f[text] - resourceCounts[text]
                                         ELSE 0]

\* fed after one more event
FedWith(event) ==
    [text \in Texts |-> fed[text] + (IF text \in Hits[event] THEN 1 ELSE 0)]

\* the rows a call returns: one per phase, in the order of envProgressOrder
Rows(c) ==
    [i \in 1..Len(envProgressOrder) |->
        [text |-> envProgressOrder[i],
         count |-> c[envProgressOrder[i]],
         done |-> c[envProgressOrder[i]] = resourceCounts[envProgressOrder[i]]]]

\* what the event display leaves alone
displayFrame == <<execState, cli, probe, sm, ainit>>

\* the channel delivers a batch: o.humanizeEnvironmentEvents(stackEvent) is
\* called, with counters of its own
humanizeEnvironmentEvents_Call ==
    /\ hpc \in {"idle", "shown"}
    /\ Total(carried) + Total(fed) + ignored <= MaxExtra
    /\ hpc' = "counting"
    /\ carried' = [text \in Texts |-> carried[text] + fed[text]]
    /\ fed' = NoCounts
    /\ counts' = NoCounts
    /\ UNCHANGED <<rows, ignored, displayFrame>>

\* Variant of HumanizeResourceEvents_Event that counts on past the expected
\* count.
HumanizeResourceEvents_Event_NoCap ==
    /\ hpc = "counting"
    /\ \E event \in StackEvents :
        LET hit == Hits[event]
            more == FedWith(event)
            all == [text \in Texts |-> carried[text] + more[text]]
            miss == IF hit = {} THEN 1 ELSE 0
        IN /\ Total(Excess(all)) + ignored + miss + Total(carried) <= MaxExtra
           /\ fed' = more
           /\ ignored' = ignored + miss
           /\ counts' = [text \in Texts |->
                            IF text \in hit THEN counts[text] + 1
                                            ELSE counts[text]]
    /\ UNCHANGED <<hpc, carried, rows, displayFrame>>

\* Variant of HumanizeResourceEvents_Event that counts an event no phase
\* matches toward the first phase.
HumanizeResourceEvents_Event_CountsUnmatched ==
    /\ hpc = "counting"
    /\ \E event \in StackEvents :
        LET hit == IF Hits[event] = {} THEN {textVPC} ELSE Hits[event]
            more == FedWith(event)
            all == [text \in Texts |-> carried[text] + more[text]]
            miss == IF Hits[event] = {} THEN 1 ELSE 0
        IN /\ Total(Excess(all)) + ignored + miss + Total(carried) <= MaxExtra
           /\ fed' = more
           /\ ignored' = ignored + miss
           /\ counts' = [text \in Texts |->
                            IF text \in hit
                            THEN Min(counts[text] + 1, resourceCounts[text])
                            ELSE counts[text]]
    /\ UNCHANGED <<hpc, carried, rows, displayFrame>>

\* HumanizeResourceEvents: one event of the batch is put to every matcher
HumanizeResourceEvents_Event ==
    /\ hpc = "counting"
    /\ \E event \in StackEvents :
        LET hit == Hits[event]
            more == FedWith(event)
            all == [text \in Texts |-> carried[text] + more[text]]
            miss == IF hit = {} THEN 1 ELSE 0
        IN /\ Total(Excess(all)) + ignored + miss + Total(carried) <= MaxExtra
           /\ fed' = more
           /\ ignored' = ignored + miss
           /\ counts' = [text \in Texts |->
                            IF text \in hit
                            THEN Min(counts[text] + 1, resourceCounts[text])
                            ELSE counts[text]]
    /\ UNCHANGED <<hpc, carried, rows, displayFrame>>

\* Variant of prog_Events whose rows are in the reverse of the declared order.
prog_Events_Reversed ==
    /\ hpc = "counting"
    /\ hpc' = "shown"
    /\ rows' = [i \in 1..Len(envProgressOrder) |->
                   Rows(counts)[Len(envProgressOrder) + 1 - i]]
    /\ UNCHANGED <<counts, fed, carried, ignored, displayFrame>>

\* the call returns its rows and they are handed to o.prog.Events
prog_Events ==
    /\ hpc = "counting"
    /\ hpc' = "shown"
    /\ rows' = Rows(counts)
    /\ UNCHANGED <<counts, fed, carried, ignored, displayFrame>>

EventsNext ==
    \/ humanizeEnvironmentEvents_Call
    \/ HumanizeResourceEvents_Event
    \/ prog_Events

EventsInit == Init /\ project.Domain = "" /\ envAccount = ProjectAccount

EventsSpec == EventsInit /\ [][EventsNext]_vars

----------------------------------------------------------------------------
\* SecretsManager.CreateSecret, as TestSecretsManager_CreateSecret expects it.

SecretNames == {"github-token-backend-badgoose", "github-token-frontend", "db-password"}
SecretStrings == {"H0NKH0NKH0NK", "s3cr3t"}

\* what the SecretsManager API answers: no error, an awserr with code
\* ResourceExistsException, or another error
ErrCodeResourceExistsException == <<"ResourceExistsException">>
BackendAnswers == {Nil, ErrCodeResourceExistsException, <<"mockError">>}

\* the error sm.CreateSecret(name, value) returns for a backend answer
CreateSecretErr(name, answer) ==
    IF answer = Nil
    THEN NoSecretErr
    ELSE IF answer = ErrCodeResourceExistsException
    THEN [kind |-> "ErrSecretAlreadyExists", secretName |-> name,
          cause |-> answer]
    ELSE [kind |-> "error", secretName |-> "",
          cause |-> Wrap("create secret " \o name, answer)]

secretFrame == <<execState, cli, probe, display, ainit>>

\* tc.callMock(mockSecretsManager): the answer the API will give
CreateSecret_callMock ==
    /\ sm.stage = "idle"
    /\ \E name \in SecretNames, value \in SecretStrings,
          answer \in BackendAnswers :
        sm' = [NoSecretCall EXCEPT !.stage = "mocked", !.name = name,
                                  !.value = value, !.backend = answer]
    /\ UNCHANGED secretFrame

\* Variant of CreateSecret_Return that reports no error when the secret
\* already exists.
CreateSecret_Return_ExistsIsNil ==
    /\ sm.stage = "mocked"
    /\ sm' = [sm EXCEPT !.stage = "returned",
                        !.err = IF sm.backend = ErrCodeResourceExistsException
                                THEN NoSecretErr
                                ELSE CreateSecretErr(sm.name, sm.backend)]
    /\ UNCHANGED secretFrame

\* _, err := sm.CreateSecret(tc.inSecretName, tc.inSecretString)
CreateSecret_Return ==
    /\ sm.stage = "mocked"
    /\ sm' = [sm EXCEPT !.stage = "returned",
                        !.err = CreateSecretErr(sm.name, sm.backend)]
    /\ UNCHANGED secretFrame

SecretNext ==
    \/ CreateSecret_callMock
    \/ CreateSecret_Return

SecretSpec == Init /\ [][SecretNext]_vars

----------------------------------------------------------------------------
\* "app init": initAppOpts.Execute and the collaborators it drives.

\* values of the --name and --app-type flags after Ask
InitAppNames == {AppName, "backend"}
AppTypes == {"Load Balanced Web App"}

\* *store.ErrNoSuchApplication, the answer for an application not stored
ErrNoSuchApplication == <<"ErrNoSuchApplication">>

\* errors.As(err, &existsErr) with *store.ErrNoSuchApplication
IsNoSuchApplication(err) ==
    \E i \in 1..Len(err) : err[i] = "ErrNoSuchApplication"

\* what appStore.GetApplication answers: the stored application (no error),
\* ErrNoSuchApplication when it is not stored, or a failure of the store
GetApplicationAnswers(name) ==
    (IF name \in ainit.stored THEN {Nil} ELSE {ErrNoSuchApplication})
        \cup BackendErrs

\* the steps of createManifest that can fail
ManifestErrs == {<<"permission denied">>}

initAppFrame == <<execState, cli, probe, display, sm>>

InitAppCalled(a, name, e) == [a EXCEPT !.calls = @ \o <<[call |-> name, err |-> e]>>]
InitAppReturn(a, e) == [a EXCEPT !.pc = "done", !.returned = TRUE, !.err = e]

\* RunE: a new invocation of "app init" with its flag values
initApp_Start ==
    /\ ainit.pc \in {"idle", "done"}
    /\ ainit.runs < MaxInitRuns
    /\ \E name \in InitAppNames, type \in AppTypes :
        ainit' = [ainit EXCEPT
                    !.pc = "ensureNoExistingApp",
                    !.AppName = name, !.AppType = type,
                    !.proj = "", !.manifestPath = "",
                    !.calls = <<>>, !.prog = <<>>,
                    !.returned = FALSE, !.err = Nil,
                    !.pre = [stored |-> ainit.stored,
                             manifests |-> ainit.manifests,
                             repos |-> ainit.repos],
                    !.runs = @ + 1]
    /\ UNCHANGED initAppFrame

\* Variant of initApp_ensureNoExistingApp that goes on when the application
\* was found.
initApp_ensureNoExistingApp_FoundProceeds ==
    /\ ainit.pc = "ensureNoExistingApp"
    /\ \E answer \in GetApplicationAnswers(ainit.AppName) :
        LET a == InitAppCalled(ainit, "GetApplication", answer) IN
        ainit' =
            IF IsNoSuchApplication(answer) \/ answer = Nil
            THEN [a EXCEPT !.pc = "GetProject"]
            ELSE InitAppReturn(a,
                    Wrap("couldn't check if application " \o ainit.AppName
                         \o " exists in project " \o ProjectName, answer))
    /\ UNCHANGED initAppFrame

\* o.ensureNoExistingApp(o.ProjectName(), o.AppName) and the test of its error
initApp_ensureNoExistingApp ==
    /\ ainit.pc = "ensureNoExistingApp"
    /\ \E answer \in GetApplicationAnswers(ainit.AppName) :
        LET a == InitAppCalled(ainit, "GetApplication", answer) IN
        ainit' =
            IF IsNoSuchApplication(answer)
            THEN [a EXCEPT !.pc = "GetProject"]
            ELSE IF answer = Nil
            THEN InitAppReturn(a,
                    <<"application " \o ainit.AppName
                      \o " already exists under project " \o ProjectName>>)
            ELSE InitAppReturn(a,
                    Wrap("couldn't check if application " \o ainit.AppName
                         \o " exists in project " \o ProjectName, answer))
    /\ UNCHANGED initAppFrame

\* proj, err := o.projGetter.GetProject(o.ProjectName())
initApp_GetProject ==
    /\ ainit.pc = "GetProject"
    /\ \E e \in {Nil} \cup BackendErrs :
        LET a == InitAppCalled(ainit, "GetProject", e) IN
        ainit' =
            IF e # Nil
            THEN InitAppReturn(a, Wrap("get project " \o ProjectName, e))
            ELSE [a EXCEPT !.pc = "createManifest", !.proj = ProjectName]
    /\ UNCHANGED initAppFrame

\* manifestPath, err := o.createManifest(): WriteAppManifest, os.Getwd and
\* filepath.Rel in turn; the file exists once WriteAppManifest succeeded
initApp_createManifest ==
    /\ ainit.pc = "createManifest"
    /\ \E write \in {Nil} \cup ManifestErrs,
          getwd \in {Nil} \cup ManifestErrs,
          rel \in {Nil} \cup ManifestErrs :
        LET a1 == InitAppCalled(ainit, "WriteAppManifest", write)
            w1 == [a1 EXCEPT !.manifests = @ \cup {ainit.AppName}]
            a2 == InitAppCalled(w1, "Getwd", getwd)
            a3 == InitAppCalled(a2, "Rel", rel)
        IN
        ainit' =
            IF write # Nil
            THEN InitAppReturn(a1, write)
            ELSE IF getwd # Nil
            THEN InitAppReturn(a2, Wrap("get working directory", getwd))
            ELSE IF rel # Nil
            THEN InitAppReturn(a3,
                    Wrap("relative path of manifest file", rel))
            ELSE [a3 EXCEPT !.pc = "AddAppToProject",
                            !.manifestPath = ainit.AppName \o "/manifest.yml"]
    /\ UNCHANGED initAppFrame

\* Variant of initApp_AddAppToProject that goes on to store the application
\* when the repositories could not be created.
initApp_AddAppToProject_IgnoreError ==
    /\ ainit.pc = "AddAppToProject"
    /\ \E e \in {Nil} \cup BackendErrs :
        LET a == [InitAppCalled(ainit, "AddAppToProject", e)
                     EXCEPT !.prog = @ \o <<"Start", "Stop">>] IN
        ainit' =
            IF e # Nil
            THEN [a EXCEPT !.pc = "createAppInProject"]
            ELSE [a EXCEPT !.pc = "createAppInProject",
                           !.repos = @ \cup {ainit.AppName}]
    /\ UNCHANGED initAppFrame

\* o.prog.Start; o.projDeployer.AddAppToProject(o.proj, o.AppName); o.prog.Stop
initApp_AddAppToProject ==
    /\ ainit.pc = "AddAppToProject"
    /\ \E e \in {Nil} \cup BackendErrs :
        LET a == [InitAppCalled(ainit, "AddAppToProject", e)
                     EXCEPT !.prog = @ \o <<"Start", "Stop">>] IN
        ainit' =
            IF e # Nil
            THEN InitAppReturn(a,
                    Wrap("add app " \o ainit.AppName \o " to project "
                         \o ProjectName, e))
            ELSE [a EXCEPT !.pc = "createAppInProject",
                           !.repos = @ \cup {ainit.AppName}]
    /\ UNCHANGED initAppFrame

\* return o.createAppInProject(o.ProjectName())
initApp_createAppInProject ==
    /\ ainit.pc = "createAppInProject"
    /\ \E e \in {Nil} \cup BackendErrs :
        LET a == InitAppCalled(ainit, "CreateApplication", e) IN
        ainit' =
            IF e # Nil
            THEN InitAppReturn(a,
                    Wrap("saving application " \o ainit.AppName, e))
            ELSE InitAppReturn([a EXCEPT !.stored = @ \cup {ainit.AppName}],
                               Nil)
    /\ UNCHANGED initAppFrame

initApp_Execute ==
    \/ initApp_ensureNoExistingApp
    \/ initApp_GetProject
    \/ initApp_createManifest
    \/ initApp_AddAppToProject
    \/ initApp_createAppInProject

InitAppNext ==
    \/ initApp_Start
    \/ initApp_Execute

InitAppSpec == Init /\ [][InitAppNext]_vars

----------------------------------------------------------------------------
Next ==
    \/ initEnv_Start
    \/ initEnv_Execute
    \/ Watcher
    \/ appDeploy_Start
    \/ appDeploy_Execute

Spec == Init /\ [][Next]_vars

\* The goroutines of one invocation are scheduled fairly: the watcher closes
\* its event channel and delivers its result; Execute takes every step it can.
FairSpec ==
    /\ Spec
    /\ WF_vars(Watcher_Close)
    /\ WF_vars(Watcher_Result)
    /\ WF_vars(initEnv_Execute)

\* The three workflows that drive a spinner, one family in a behaviour: the
\* Execute of "env init" and "app deploy", or the Execute of "app init".
WorkflowNext ==
    \/ ainit = NoInitApp /\ Next
    \/ cmd = "none" /\ InitAppNext

WorkflowSpec == Init /\ [][WorkflowNext]_vars

TypeOK ==
    /\ pc \in STRING
    /\ returned \in 0..1
    /\ Len(sent) <= MaxEvents
    /\ Len(evChan) <= EventChanCap

----------------------------------------------------------------------------
\* Properties of environment bring-up.

EnvInit == cmd = "env init"
Succeeded == pc = "done" /\ retErr = Nil
Failed == pc = "done" /\ retErr # Nil
HasCall(name) == \E i \in 1..Len(trace) : trace[i].call = name
CallFailed(name) ==
    \E i \in 1..Len(trace) : trace[i].call = name /\ trace[i].res # Nil
CallNames == [i \in 1..Len(trace) |-> trace[i].call]
Drained == evClosed /\ evChan = <<>> /\ shown = sent
EnvLink == [AccountID |-> envAccount, Region |-> Region]
DeployReportedExists ==
    \E i \in 1..Len(trace) : /\ trace[i].call = "DeployEnvironment"
                             /\ IsStackAlreadyExists(trace[i].res)

\* C1: when DeployEnvironment fails with StackAlreadyExists, Execute returns
\* success, and in that invocation the event stream is never started and
\* AddEnvToProject and CreateEnvironment are never invoked (no registry write).
C1_StackAlreadyExistsIsSuccess ==
    (EnvInit /\ DeployReportedExists) =>
        /\ pc = "done" /\ returned = 1 /\ retErr = Nil
        /\ ~HasCall("StreamEnvironmentCreation") /\ wpc = "off"
        /\ ~HasCall("AddEnvToProject")
        /\ ~HasCall("CreateEnvironment")
        /\ linked = pre.linked /\ registry = pre.registry

C1_Witness ==
    EnvInit /\ DeployReportedExists /\ pc = "done" /\ pre.stack

\* C2 as stated: whenever environment bring-up returns success, the stack is
\* provisioned, its account/region is linked to the project and its record is
\* persisted (by this or an earlier invocation).
C2_SuccessMeansLinkedAndPersisted ==
    (EnvInit /\ Succeeded) =>
        /\ stackExists
        /\ EnvLink \in linked
        /\ EnvName \in registry

\* C2 amended: whenever environment bring-up returns success the stack
\* exists; the link and the record are guaranteed only when this invocation
\* did not take the StackAlreadyExists short-circuit, and then both were done
\* by this invocation.
C2_SuccessMeansStackAndUnlessShortCircuitLinked ==
    (EnvInit /\ Succeeded) =>
        /\ stackExists
        /\ returned = 1
        /\ ~DeployReportedExists =>
              /\ EnvLink \in linked
              /\ EnvName \in registry
              /\ HasCall("AddEnvToProject") /\ ~CallFailed("AddEnvToProject")
              /\ HasCall("CreateEnvironment") /\ ~CallFailed("CreateEnvironment")

C2_Witness ==
    /\ EnvInit /\ Succeeded /\ ~DeployReportedExists
    /\ EnvLink \in linked /\ EnvName \in registry

\* C3 as stated: after an invocation failed at link-to-project or at persist,
\* a re-run that completes has executed the link and persist steps again.
C3_RerunExecutesLinkAndPersist ==
    (EnvInit /\ pre.failed /\ Succeeded) =>
        /\ HasCall("AddEnvToProject")
        /\ HasCall("CreateEnvironment")

\* C3 amended: after an invocation failed at link-to-project or at persist,
\* and while the stack it created exists, a re-run never executes the link or
\* persist step: it is answered StackAlreadyExists (or fails before that) and
\* leaves the project links and the registry as they were.
C3_RerunNeverLinksOrPersists ==
    (EnvInit /\ pre.failed) =>
        /\ pre.stack /\ stackExists
        /\ ~HasCall("StreamEnvironmentCreation")
        /\ ~HasCall("AddEnvToProject")
        /\ ~HasCall("CreateEnvironment")
        /\ linked = pre.linked /\ registry = pre.registry
        /\ Succeeded => DeployReportedExists

C3_Witness ==
    /\ EnvInit /\ pre.failed /\ Succeeded
    /\ EnvName \notin registry

\* C4: with the project found, no DNS delegation needed, no stack yet and a
\* successful outcome, the invocation called DeployEnvironment, then drained
\* the event stream to its close, then AddEnvToProject, then
\* CreateEnvironment, each exactly once in that order; the link is never
\* attempted before the stream is drained and its result read.
C4_HappyPathOrder ==
    (EnvInit /\ ~RequiresDNSDelegation(project) /\ ~pre.stack) =>
        /\ Succeeded =>
              /\ CallNames = <<"GetProject", "identity.Get", "DeployEnvironment",
                               "StreamEnvironmentCreation", "AddEnvToProject",
                               "CreateEnvironment">>
              /\ \A i \in 1..Len(trace) : trace[i].res = Nil
              /\ Drained /\ resp # <<>> /\ resp[1].Err = Nil
              /\ returned = 1
        /\ HasCall("AddEnvToProject") =>
              /\ Drained /\ resp # <<>>
              /\ CallIndex("DeployEnvironment") < CallIndex("StreamEnvironmentCreation")
              /\ CallIndex("StreamEnvironmentCreation") < CallIndex("AddEnvToProject")

C4_Witness ==
    /\ EnvInit /\ ~RequiresDNSDelegation(project) /\ ~pre.stack /\ Succeeded
    /\ Len(shown) = 2

\* C5: the consumer reads the terminal result only after it observed the
\* event channel closed: when the result is read (or about to be read) every
\* batch the watcher sent has been handed to the progress display.
C5_ResultReadAfterClose ==
    (EnvInit /\ (resp # <<>> \/ pc = "responses")) =>
        /\ evClosed
        /\ evChan = <<>>
        /\ shown = sent

C5_Witness ==
    EnvInit /\ resp # <<>> /\ Len(shown) = 2 /\ shown[1] # shown[2]

Streaming == EnvInit /\ pc \in {"range", "responses"}

\* C6: under fair scheduling, once the watcher closes the event channel and
\* delivers its result, environment bring-up returns; the consumer is blocked
\* only while the event channel is open and empty or the result is missing.
C6_StreamTerminates ==
    /\ [](EnvInit /\ pc = "range" /\ (evChan # <<>> \/ evClosed)
            => ENABLED (initEnv_RangeEvent \/ initEnv_RangeClosed))
    /\ [](EnvInit /\ pc = "responses" /\ respChan # <<>>
            => ENABLED initEnv_Responses)
    /\ (Streaming ~> pc = "done")

C6_Witness ==
    EnvInit /\ pc = "done" /\ wpc = "closed" /\ respSent /\ Len(sent) = 1

StreamFailed == EnvInit /\ resp # <<>> /\ resp[1].Err # Nil

\* C7: when the terminal result carries an error after K events, Execute
\* returns exactly that error, the display got exactly those K events and
\* gets nothing more afterwards, AddEnvToProject and CreateEnvironment are not
\* invoked and success is not reported.
C7_StreamErrorIsTheResult ==
    /\ [](StreamFailed =>
            /\ pc = "done" /\ returned = 1
            /\ retErr = resp[1].Err /\ retErr \in BackendErrs
            /\ shown = sent /\ evClosed
            /\ ~HasCall("AddEnvToProject") /\ ~HasCall("CreateEnvironment")
            /\ linked = pre.linked /\ registry = pre.registry)
    /\ [][(StreamFailed /\ cmd' = cmd /\ pc' = pc) =>
            (shown' = shown /\ prog' = prog /\ trace' = trace)]_vars

C7_Witness ==
    StreamFailed /\ pc = "done" /\ Len(sent) = 1

\* C8: an invocation has no outcome while it runs and exactly one when it has
\* ended, and when an event stream was started the outcome comes only after
\* the event channel was closed and drained.
C8_ExactlyOneOutcome ==
    /\ returned \in {0, 1}
    /\ (pc = "done") <=> (returned = 1)
    /\ (returned = 0) => retErr = Nil
    /\ (returned = 1 /\ wpc # "off") => (evClosed /\ evChan = <<>>)
    /\ (returned = 1 /\ HasCall("StreamEnvironmentCreation")) => wpc = "closed"

C8_Witness ==
    /\ EnvInit /\ pc = "done" /\ returned = 1 /\ wpc = "closed"
    /\ Len(sent) = 2 /\ retErr # Nil

DNSDiffers == RequiresDNSDelegation(project) /\ envAccount # project.AccountID

\* C9: DelegateDNSPermissions is invoked only if the project requires DNS
\* delegation and the environment account differs from the project account,
\* at most once, and whenever DeployEnvironment is invoked in that case the
\* delegation was invoked before it; in the same-account case nothing is
\* granted and the workflow goes on to DeployEnvironment.
C9_DelegationIffCrossAccount ==
    EnvInit =>
        /\ CallCount("DelegateDNSPermissions") <= 1
        /\ HasCall("DelegateDNSPermissions") => DNSDiffers
        /\ (HasCall("DeployEnvironment") /\ DNSDiffers) =>
              /\ CallCount("DelegateDNSPermissions") = 1
              /\ ~CallFailed("DelegateDNSPermissions")
              /\ CallIndex("DelegateDNSPermissions") < CallIndex("DeployEnvironment")
              /\ envAccount \in dnsGranted
        /\ ~DNSDiffers => dnsGranted = {}
        /\ (RequiresDNSDelegation(project) /\ ~DNSDiffers
              /\ HasCall("envIdentity.Get") /\ ~CallFailed("envIdentity.Get")) =>
              (pc = "DeployEnvironment" \/ HasCall("DeployEnvironment"))

C9_Witness ==
    /\ EnvInit /\ DNSDiffers /\ HasCall("DeployEnvironment")
    /\ HasCall("DelegateDNSPermissions")

DNSStepFailed ==
    EnvInit /\ (CallFailed("envIdentity.Get") \/ CallFailed("DelegateDNSPermissions"))

\* C10: when the DNS delegation step fails (identity lookup of the
\* environment account or DelegateDNSPermissions), Execute returns an error
\* and DeployEnvironment, the event stream, AddEnvToProject and
\* CreateEnvironment are not invoked.
C10_DelegationFailureAborts ==
    DNSStepFailed =>
        /\ pc = "done" /\ returned = 1 /\ retErr # Nil
        /\ retErr[1] = "granting DNS permissions"
        /\ trace[Len(trace)].res # Nil
        /\ ~HasCall("DeployEnvironment")
        /\ ~HasCall("StreamEnvironmentCreation") /\ wpc = "off"
        /\ ~HasCall("AddEnvToProject")
        /\ ~HasCall("CreateEnvironment")
        /\ stackExists = pre.stack /\ linked = pre.linked
        /\ registry = pre.registry

C10_Witness ==
    DNSStepFailed /\ CallFailed("DelegateDNSPermissions") /\ pc = "done"

\* C11: when the parent project cannot be fetched, Execute returns the
\* registry's error unchanged and nothing is mutated: DelegateDNSPermissions,
\* DeployEnvironment, AddEnvToProject and CreateEnvironment are not invoked.
C11_GetProjectFailureIsVerbatim ==
    (EnvInit /\ CallFailed("GetProject")) =>
        /\ pc = "done" /\ returned = 1
        /\ retErr = trace[1].res /\ retErr \in BackendErrs
        /\ Len(trace) = 1
        /\ ~HasCall("DelegateDNSPermissions")
        /\ ~HasCall("DeployEnvironment")
        /\ ~HasCall("AddEnvToProject")
        /\ ~HasCall("CreateEnvironment")
        /\ stackExists = pre.stack /\ linked = pre.linked
        /\ registry = pre.registry /\ prog = <<>>

C11_Witness ==
    EnvInit /\ CallFailed("GetProject") /\ pc = "done" /\ retErr = <<"Throttling">>

LinkFailed == EnvInit /\ CallFailed("AddEnvToProject")

\* C12: when AddEnvToProject fails after the stack was created, Execute
\* reports a failure, CreateEnvironment is not invoked and nothing is undone:
\* the created stack stays provisioned.
C12_LinkFailureKeepsStack ==
    LinkFailed =>
        /\ pc = "done" /\ returned = 1 /\ retErr # Nil
        /\ retErr = Wrap("deploy env to project", trace[Len(trace)].res)
        /\ trace[Len(trace)].call = "AddEnvToProject"
        /\ ~HasCall("CreateEnvironment")
        /\ registry = pre.registry /\ linked = pre.linked
        /\ stackExists /\ ~pre.stack
        /\ ~CallFailed("DeployEnvironment")

C12_Witness ==
    LinkFailed /\ pc = "done" /\ stackExists /\ EnvName \notin registry

-----------------------------------------------------------------------------
\* Properties of application deploy.

AppDeploy == cmd = "app deploy"
LastCall == trace[Len(trace)]
Applied == Len(appStack) - pre.applied

\* C13: when the image push fails, Execute ends with an error at that call:
\* the template is not rendered, no change-set name is generated and DeployApp
\* is not invoked, so nothing is applied to the application stack.
C13_PushFailureAborts ==
    (AppDeploy /\ CallFailed("Push")) =>
        /\ pc = "done" /\ returned = 1 /\ retErr # Nil
        /\ LastCall.call = "Push"
        /\ ~HasCall("packageApp.Execute")
        /\ ~HasCall("uuid.NewRandom")
        /\ ~HasCall("DeployApp")
        /\ app.template = "" /\ app.changeSet = ""
        /\ Applied = 0

C13_Witness ==
    AppDeploy /\ CallFailed("Push") /\ pc = "done" /\ retErr = <<"AccessDenied">>

\* C14 as stated: when template rendering fails, Execute ends with an error at
\* that call, no change-set name is generated and DeployApp is not invoked;
\* every template handed to DeployApp was rendered successfully.
C14_RenderFailureAborts ==
    /\ (AppDeploy /\ CallFailed("packageApp.Execute")) =>
            /\ pc = "done" /\ returned = 1 /\ retErr # Nil
            /\ ~HasCall("uuid.NewRandom")
            /\ ~HasCall("DeployApp")
    /\ \A i \in 1..Len(appStack) : appStack[i].template = "rendered"

\* C15 as stated: every failure of a step of application deploy ends Execute
\* with that step's error wrapped with the step's identification, never
\* the bare collaborator error (and never no error at all).
C15_EveryFailureIsWrapped ==
    AppDeploy =>
        \A i \in 1..Len(trace) :
            trace[i].res # Nil =>
                /\ pc = "done" /\ i = Len(trace)
                /\ Len(retErr) = Len(trace[i].res) + 1
                /\ Tail(retErr) = trace[i].res

AppDeployOrder ==
    << "GetEnvironment", "DefaultWithRegion", "FromRole", "Default",
       "GetRepository", "ReadAppManifest", "UnmarshalApp", "Build",
       "GetECRAuth", "Login", "Push", "packageApp.Execute", "uuid.NewRandom",
       "DeployApp", "NewWebAppDescriber", "URI" >>

\* C16 as stated: a successful application deploy made each step exactly once
\* in the order of Execute, and every step started only after the previous
\* one had succeeded, so no call of the invocation failed.
C16_HappyPathStepsAllSucceeded ==
    (AppDeploy /\ Succeeded) =>
        /\ CallNames = AppDeployOrder
        /\ \A i \in 1..Len(trace) : trace[i].res = Nil

\* C17: any error of DeployApp, StackAlreadyExists included, ends Execute with
\* that error wrapped as "deploy application"; the endpoint is not resolved
\* and success is not reported.
C17_NoShortCircuitOnApply ==
    (AppDeploy /\ CallFailed("DeployApp")) =>
        /\ pc = "done" /\ returned = 1
        /\ LastCall.call = "DeployApp"
        /\ retErr = Wrap("deploy application", LastCall.res)
        /\ ~Succeeded
        /\ ~HasCall("NewWebAppDescriber") /\ ~HasCall("URI")
        /\ ~appStack[Len(appStack)].ok

C17_Witness ==
    /\ AppDeploy /\ pc = "done" /\ HasCall("DeployApp")
    /\ IsStackAlreadyExists(LastCall.res)

ChangeSetName(id) == NameForApp(ProjectName, EnvName, AppName) \o "-" \o id

\* C18: every change applied to the application stack carries a change-set
\* name made of the derived stack name and an identifier uuid.NewRandom
\* returned, and no two apply invocations (a retry after a failed attempt
\* included) carry the same change-set name.
C18_ChangeSetNamesDistinct ==
    /\ \A i \in 1..Len(appStack) :
          \E id \in issued : appStack[i].changeSet = ChangeSetName(id)
    /\ \A i, j \in 1..Len(appStack) :
          i # j => appStack[i].changeSet # appStack[j].changeSet

C18_Witness ==
    /\ AppDeploy /\ pc = "done" /\ Len(appStack) = 2
    /\ ~appStack[1].ok /\ appStack[2].ok

ContextCalls == {"DefaultWithRegion", "FromRole", "Default"}
ContextFailed == \E c \in ContextCalls : CallFailed(c)

\* C19: when any of the three credential contexts cannot be resolved, Execute
\* ends with an error at that call; GetRepository, Build, Push, template
\* rendering and DeployApp are not invoked and nothing is pushed or applied.
C19_ContextFailureAborts ==
    (AppDeploy /\ ContextFailed) =>
        /\ pc = "done" /\ returned = 1 /\ retErr # Nil
        /\ LastCall.call \in ContextCalls /\ LastCall.res # Nil
        /\ ~HasCall("GetRepository") /\ ~HasCall("Build") /\ ~HasCall("Push")
        /\ ~HasCall("packageApp.Execute") /\ ~HasCall("DeployApp")
        /\ Applied = 0 /\ imagePushed = pre.pushed

C19_Witness ==
    AppDeploy /\ CallFailed("Default") /\ pc = "done"

\* C20: every change is applied through the client of the assumed manager
\* role in the environment's region and is tagged with the project,
\* environment and application names; the image registry is only reached
\* through the default session scoped to the environment's region.
C20_ClientsAndTags ==
    /\ \A i \in 1..Len(appStack) :
          /\ appStack[i].via = "EnvManagerRole@" \o Region
          /\ appStack[i].tags = <<ProjectName, EnvName, AppName>>
    /\ app.ecrUsed \subseteq {"default@" \o Region}

C20_Witness ==
    /\ AppDeploy /\ Succeeded /\ Applied = 1
    /\ app.ecrUsed = {"default@" \o Region}

-----------------------------------------------------------------------------
\* Properties of the command pipeline.

PreconditionFailed == cli.stage = "returned" /\ cli.failedIn \in {"Validate", "Ask"}

\* C21: when Validate or Ask of environment init or application deploy
\* returns an error, Execute is not run and RunE returns that error as it is.
C21_PreconditionFailureSkipsExecute ==
    PreconditionFailed =>
        /\ cli.executed = 0
        /\ cli.err = cli.stepErr /\ cli.err # Nil
        /\ cli.execSess = "none"

C21_Witness ==
    /\ PreconditionFailed /\ cli.command = "env init"
    /\ cli.err = <<"errNamedProfilesNotFound">>

\* C27 as stated: when environment init runs Execute, the session behind
\* envDeployer and envIdentity is the session of the profile EnvProfile names
\* at that time, given as a flag or selected during Ask.
C27_ExecuteUsesChosenProfile ==
    (cli.command = "env init" /\ cli.executed > 0) =>
        cli.execSess = FromProfile(cli.EnvProfile)

-----------------------------------------------------------------------------
\* Properties of the phase matchers and of the event display.

\* C30 as stated: every resource (type, logical name) matches at most one of
\* the seven phases.
C30_MatchersMutuallyExclusive ==
    Cardinality(probe.phases) <= 1

\* C30, amended: the type-only phases (VPC, internet gateway, ECS cluster)
\* and the two subnet phases exclude one another; a resource matching one of
\* them can only match, besides it, the two phases decided by a word of the
\* logical name (route tables, load balancer), which can also match together.
C30_OnlyNamePhasesOverlap ==
    Cardinality(probe.phases \ {textRouteTables, textALB}) <= 1

C30_Witness ==
    /\ probe.event # <<>>
    /\ probe.phases = {textPublicSubnets, textRouteTables}

Expected(f) == \A text \in Texts : f[text] = resourceCounts[text]
AllDone == \A i \in 1..Len(rows) : rows[i].done
DeclaredOrder == [i \in 1..Len(rows) |-> rows[i].text] = envProgressOrder
Streamed == [text \in Texts |-> carried[text] + fed[text]]

C24_UnmatchedEventIgnored ==
    [][ignored' > ignored =>
          /\ counts' = counts /\ fed' = fed
          /\ rows' = rows /\ hpc' = hpc]_vars

C24_Witness ==
    hpc = "shown" /\ ignored > 0 /\ Total(counts) > 0 /\ rows = Rows(counts)

-----------------------------------------------------------------------------
\* Properties of SecretsManager.CreateSecret.

-----------------------------------------------------------------------------
\* Further properties of application deploy.

AuthFailed == CallFailed("GetECRAuth") \/ CallFailed("Login")

\* C26 as stated: when the registry credentials cannot be obtained or the
\* login to the registry fails, Execute ends with an error and Push is not
\* invoked.
C26_NoPushWithoutLogin ==
    (AppDeploy /\ AuthFailed) =>
        /\ pc = "done" /\ returned = 1 /\ retErr # Nil
        /\ ~HasCall("Push")
        /\ imagePushed = pre.pushed

\* "app init" is running or ran in this state
InitApp == ainit.pc # "idle"
InitAppHasCall(name) ==
    \E i \in 1..Len(ainit.calls) : ainit.calls[i].call = name
InitAppCallFailed(name) ==
    \E i \in 1..Len(ainit.calls) :
        ainit.calls[i].call = name /\ ainit.calls[i].err # Nil
InitAppCallOk(name) ==
    \E i \in 1..Len(ainit.calls) :
        ainit.calls[i].call = name /\ ainit.calls[i].err = Nil
\* the lookup was made and its answer was not "no such application"
LookupRefused ==
    /\ InitAppHasCall("GetApplication")
    /\ ainit.calls[1].err # ErrNoSuchApplication

\* C28: only a "no such application" answer of the store lets Execute go on;
\* when the application is found or the lookup fails otherwise, Execute
\* returns an error, no manifest is written, AddAppToProject and
\* CreateApplication are not invoked, and nothing is created.
C28_ExistingAppCreatesNothing ==
    /\ (InitApp /\ Len(ainit.calls) > 1) =>
            ainit.calls[1].err = ErrNoSuchApplication
    /\ (InitApp /\ LookupRefused) =>
        /\ ainit.pc = "done" /\ ainit.returned /\ ainit.err # Nil
        /\ Len(ainit.calls) = 1
        /\ ~InitAppHasCall("WriteAppManifest")
        /\ ~InitAppHasCall("AddAppToProject")
        /\ ~InitAppHasCall("CreateApplication")
        /\ ainit.manifests = ainit.pre.manifests
        /\ ainit.repos = ainit.pre.repos
        /\ ainit.stored = ainit.pre.stored
    /\ (InitApp /\ ainit.AppName \in ainit.pre.stored) =>
        /\ ~InitAppHasCall("GetProject")
        /\ ainit.stored = ainit.pre.stored

\* a second invocation for an application the first one stored: the store
\* finds it and Execute returns the "already exists" error
C28_Witness ==
    /\ ainit.runs = 2 /\ ainit.pc = "done"
    /\ ainit.AppName \in ainit.pre.stored
    /\ ainit.calls = <<[call |-> "GetApplication", err |-> Nil]>>
    /\ ainit.err = <<"application " \o ainit.AppName
                     \o " already exists under project " \o ProjectName>>

\* the calls of Execute in the order of the source
InitAppOrder ==
    <<"GetApplication", "GetProject", "WriteAppManifest", "Getwd", "Rel",
      "AddAppToProject", "CreateApplication">>

\* a call of Execute whose answer ends the invocation
InitAppStepFailed(i) ==
    IF ainit.calls[i].call = "GetApplication"
    THEN ainit.calls[i].err # ErrNoSuchApplication
    ELSE ainit.calls[i].err # Nil

\* C29: the calls of one invocation are a prefix of existence check,
\* GetProject, write manifest, AddAppToProject, CreateApplication (each at
\* most once, in that order); a failed call is the last one and Execute
\* returns an error; the application is stored only after the manifest was
\* written and AddAppToProject succeeded; a failed AddAppToProject leaves the
\* manifest written and the application not stored.
C29_InitAppOrder ==
    InitApp =>
        /\ Len(ainit.calls) <= Len(InitAppOrder)
        /\ \A i \in 1..Len(ainit.calls) :
              /\ ainit.calls[i].call = InitAppOrder[i]
              /\ InitAppStepFailed(i) =>
                    /\ i = Len(ainit.calls)
                    /\ ainit.pc = "done" /\ ainit.returned
                    /\ ainit.err # Nil
        /\ (ainit.returned /\ ainit.err = Nil) =>
              /\ Len(ainit.calls) = Len(InitAppOrder)
              /\ \A i \in 1..Len(ainit.calls) : ~InitAppStepFailed(i)
        /\ ainit.stored # ainit.pre.stored =>
              /\ ainit.stored = ainit.pre.stored \cup {ainit.AppName}
              /\ InitAppCallOk("WriteAppManifest")
              /\ ainit.AppName \in ainit.manifests
              /\ InitAppCallOk("AddAppToProject")
              /\ ainit.AppName \in ainit.repos
              /\ InitAppCallOk("CreateApplication")
        /\ InitAppCallFailed("AddAppToProject") =>
              /\ ainit.AppName \in ainit.manifests
              /\ ainit.stored = ainit.pre.stored
              /\ ~InitAppHasCall("CreateApplication")

\* AddAppToProject failed for a new application: its manifest is on disk,
\* the application is not in the store
C29_Witness ==
    /\ ainit.pc = "done"
    /\ InitAppCallFailed("AddAppToProject")
    /\ ainit.AppName \in ainit.manifests
    /\ ainit.AppName \notin ainit.pre.manifests
    /\ ainit.AppName \notin ainit.stored
    /\ ainit.err[1] = "add app " \o ainit.AppName \o " to project "
                      \o ProjectName

\* the Start and Stop calls among the calls of a spinner, in order
SpinnerCalls(calls) == SelectSeq(calls, LAMBDA c : c \in {"Start", "Stop"})

\* Start and Stop alternate, beginning with Start: no Start while one is in
\* progress, no Stop without one
Paired(calls) ==
    \A i \in 1..Len(SpinnerCalls(calls)) :
        SpinnerCalls(calls)[i] = IF i % 2 = 1 THEN "Start" ELSE "Stop"

\* no Start is in progress
Stopped(calls) == Len(SpinnerCalls(calls)) % 2 = 0

CallSucceeded(name) ==
    \E i \in 1..Len(trace) : trace[i].call = name /\ trace[i].res = Nil

\* a Stop comes right after a Start: it is never called with no Start in
\* progress
StopsAStart(calls) ==
    \A i \in 1..Len(SpinnerCalls(calls)) :
        SpinnerCalls(calls)[i] = "Stop" =>
            i > 1 /\ SpinnerCalls(calls)[i - 1] = "Start"

\* the spinner is not running: nothing was started, or the last call is Stop
NotSpinning(calls) ==
    \/ SpinnerCalls(calls) = <<>>
    \/ SpinnerCalls(calls)[Len(SpinnerCalls(calls))] = "Stop"

\* a Start is called while an earlier Start is in progress
StartOnStart(calls) ==
    {i \in 1..Len(SpinnerCalls(calls)) - 1 :
        SpinnerCalls(calls)[i] = "Start" /\ SpinnerCalls(calls)[i + 1] = "Start"}

\* C31 as stated: in environment bring-up, application deploy and
\* application init every Start of the spinner is followed by a Stop before
\* the next Start and before Execute returns, and Stop is never called
\* without a Start in progress.
C31_SpinnerCallsPaired ==
    /\ Paired(prog)
    /\ pc = "done" => Stopped(prog)
    /\ Paired(ainit.prog)
    /\ ainit.pc = "done" => Stopped(ainit.prog)

\* C31 as the code has it: Stop is never called without a Start in progress
\* and no spinner is running when Execute returns; in application deploy and
\* application init Start and Stop alternate; in environment bring-up a Start
\* is also called while an earlier Start is in progress, and only there:
\* after a granted DNS delegation and after an accepted DeployEnvironment,
\* before the first Stop.
C31_SpinnerStoppedAtReturn ==
    /\ StopsAStart(prog)
    /\ pc = "done" => NotSpinning(prog)
    /\ cmd = "app deploy" => Paired(prog)
    /\ StartOnStart(prog) # {} =>
          /\ cmd = "env init"
          /\ \/ CallSucceeded("DeployEnvironment")
             \/ CallSucceeded("DelegateDNSPermissions")
          /\ \A i \in StartOnStart(prog) : i <= 2
    /\ Paired(ainit.prog)
    /\ ainit.pc = "done" => Stopped(ainit.prog)

\* environment bring-up went through DNS delegation, creation, linking and
\* returned: three Starts in a row, then Stop, Start, Stop
C31_Witness ==
    /\ cmd = "env init" /\ pc = "done" /\ retErr = Nil
    /\ SpinnerCalls(prog) =
          <<"Start", "Start", "Start", "Stop", "Start", "Stop">>
====
